---------------------------- MODULE Spec2Model ----------------------------
(***************************************************************************)
(* BGP route-validation dashboard (app.py and RIPE_Route_Validation_v1.2): *)
(* the AS-path classifier analyze_bgp_data, the bounded history            *)
(* DataStorage, and the Streamlit script main() with                       *)
(* fetch_and_analyze_bgp() and update_plots().                             *)
(*                                                                         *)
(* Python values are modelled as follows.  A dict is a function on its    *)
(* keys (a record); a dict that lacks a key is one whose DOMAIN lacks it.  *)
(* None is the record [none |-> TRUE].  A list is a sequence (Python index *)
(* i is TLA+ index i + 1).  The string as_path is carried as the sequence  *)
(* of its whitespace-separated tokens, which is what str.split() returns.  *)
(* A '%H:%M' label is the minute of the day of the clock reading.          *)
(***************************************************************************)
EXTENDS Integers, Sequences, FiniteSets, TLC

VARIABLES
    \* ---- the Streamlit script (Spec) ----
    variant,        \* which script runs: "app" (app.py) or "v12" (v1.2)
    now,            \* wall clock, in seconds
    pc,             \* position of the script run
    initialized,    \* 'data_stores' in st.session_state
    data_stores,    \* st.session_state.data_stores: prefix -> DataStorage
    update_time,    \* st.session_state.update_time
    last_stats,     \* st.session_state.last_stats
    current_time,   \* main's local current_time
    time_since_last_update,  \* main's local of that name
    all_stats,      \* fetch_and_analyze_bgp's local map (a set of pairs)
    timestamp,      \* fetch_and_analyze_bgp's local timestamp label
    fidx,           \* index of the next prefix of the fetch loop
    attempted,      \* the urlopen calls made by the current run, in order
    failed,         \* prefixes whose fetch or analysis raised in this run
    took_fetch,     \* whether the current run took the fetch branch
    run_pre,        \* data_stores as they were when the current run began
    bars,           \* the bars drawn by the last update_plots call
    runs,           \* number of script runs started
    \* ---- one DataStorage object driven alone (SpecStore) ----
    store,          \* the DataStorage object
    store_prev,     \* the object as it was before the last add_stats call
    calls,          \* every (timestamp, stats) passed to add_stats, in order
    \* ---- one call of analyze_bgp_data, stepped (SpecClassify) ----
    an_pc,          \* "idle", "loop", "returned" or "raised"
    an_prefix,      \* the prefix argument
    an_stats,       \* the local stats dict
    an_todo,        \* peers of the current rrc not yet visited
    an_peer,        \* the peer visited last
    an_prev         \* stats as they were before that peer was visited

vars == << variant, now, pc, initialized, data_stores, update_time, last_stats,
           current_time, time_since_last_update, all_stats, timestamp, fidx,
           attempted, failed, took_fetch, run_pre, bars, runs,
           store, store_prev, calls,
           an_pc, an_prefix, an_stats, an_todo, an_peer, an_prev >>

main_vars == << variant, now, pc, initialized, data_stores, update_time,
                last_stats, current_time, time_since_last_update, all_stats,
                timestamp, fidx, attempted, failed, took_fetch, run_pre, bars,
                runs >>

store_vars == << store, store_prev, calls >>

an_vars == << an_pc, an_prefix, an_stats, an_todo, an_peer, an_prev >>

---------------------------------------------------------------------------
(* Bounds of the model.                                                    *)

\* How many of the configured prefixes the script model monitors.
NumPrefixes == 2

\* Script runs per behaviour.
MaxRuns == 3

\* add_stats calls per behaviour of SpecStore.
MaxAdds == 4

\* Largest max_points a DataStorage of SpecStore is constructed with.
MaxCapacity == 3

\* Distinct timestamp labels offered to add_stats in SpecStore.
MaxStamp == 4

\* Peers per snapshot and tokens per as_path in SpecClassify.
MaxPeers == 2

MaxPathLen == 3

---------------------------------------------------------------------------
(* Configuration.                                                          *)

None == [none |-> TRUE]

Truthy(x) == x # None

ALL_PREFIXES ==
    << "171.18.48.0/24", "171.18.49.0/24", "171.18.50.0/24",
       "171.18.51.0/24", "171.18.48.0/23", "171.18.50.0/23" >>

PREFIXES == SubSeq(ALL_PREFIXES, 1, NumPrefixes)

PrefixSet == { PREFIXES[i] : i \in 1..Len(PREFIXES) }

VALID_UPSTREAMS(prefix) ==
    CASE prefix = "171.18.48.0/24" -> {"AS3758"}
      [] prefix = "171.18.49.0/24" -> {"AS17645"}
      [] prefix = "171.18.50.0/24" -> {"AS3758"}
      [] prefix = "171.18.51.0/24" -> {"AS17645"}
      [] prefix = "171.18.48.0/23" -> {"AS3758", "AS17645"}
      [] prefix = "171.18.50.0/23" -> {"AS3758", "AS17645"}

DefaultMaxPoints == 15

PollInterval == 120

SecondsPerDay == 86400

MinutesPerDay == 1440

---------------------------------------------------------------------------
(* DataStorage.                                                            *)

DataStorage(max_points) ==
    [max_points |-> max_points, timestamps |-> << >>, stats_history |-> << >>]

\* A store that, once full, drops the new point instead of the oldest.
add_stats_evict_newest(self, stats, ts) ==
    IF Len(self.timestamps) + 1 > self.max_points
    THEN self
    ELSE [self EXCEPT !.timestamps = Append(@, ts),
                      !.stats_history = Append(@, stats)]

add_stats(self, stats, ts) ==
    LET appended == [self EXCEPT !.timestamps = Append(@, ts),
                                 !.stats_history = Append(@, stats)]
    IN  IF Len(appended.timestamps) > self.max_points
        THEN [appended EXCEPT !.timestamps = Tail(@),
                              !.stats_history = Tail(@)]
        ELSE appended

\* index is the Python (0-based) index.
get_stats(self, index) ==
    IF 0 <= index /\ index < Len(self.stats_history)
    THEN self.stats_history[index + 1]
    ELSE None

---------------------------------------------------------------------------
(* analyze_bgp_data.                                                       *)

StatKeys == {"total_paths", "AS10236", "AS19905", "OTHER", "AS3758", "AS17645"}

\* Lines 89-96 of app.py: the stats dict, every counter 0.
ZeroStats == [k \in StatKeys |-> 0]

Returned(stats) == [raised |-> FALSE, stats |-> stats]

Raised == [raised |-> TRUE, stats |-> ZeroStats]

\* A peer dict: peer['asn_origin'], peer['as_path'] raise KeyError on a
\* missing key; .split() raises AttributeError on a value that is no string.
HasOrigin(peer) == "asn_origin" \in DOMAIN peer

HasPath(peer) == "as_path" \in DOMAIN peer

IsStr(value) == value.type = "str"

Str(tokens) == [type |-> "str", tokens |-> tokens]

JsonNull == [type |-> "null", tokens |-> << >>]

Split(value) == value.tokens

\* Lines 106-111 of app.py: the origin counters.
count_origin(stats, asn_origin) ==
    IF asn_origin = "10236" THEN [stats EXCEPT !["AS10236"] = @ + 1]
    ELSE IF asn_origin = "19905" THEN [stats EXCEPT !["AS19905"] = @ + 1]
    ELSE [stats EXCEPT !["OTHER"] = @ + 1]

\* The while loop of lines 119-121: i is the Python index, and the result
\* is the index the loop ends with (-1 when it runs off the front).
RECURSIVE scan_back(_, _, _)
scan_back(as_path, i, asn_origin) ==
    IF i >= 0 /\ as_path[i + 1] = asn_origin
    THEN scan_back(as_path, i - 1, asn_origin)
    ELSE i

count_upstream_no_skip(stats, as_path, asn_origin, valid_upstreams) ==
    IF Len(as_path) >= 2
    THEN LET second_last == as_path[Len(as_path) - 1]
         IN  IF second_last = "3758" /\ "AS3758" \in valid_upstreams
             THEN [stats EXCEPT !["AS3758"] = @ + 1]
             ELSE IF second_last = "17645" /\ "AS17645" \in valid_upstreams
             THEN [stats EXCEPT !["AS17645"] = @ + 1]
             ELSE stats
    ELSE stats

\* Lines 114-127 of app.py: the upstream counters.
count_upstream(stats, as_path, asn_origin, valid_upstreams) ==
    IF Len(as_path) >= 2
    THEN LET i == scan_back(as_path, Len(as_path) - 2, asn_origin)
         IN  IF i >= 0
             THEN LET second_last == as_path[i + 1]
                  IN  IF second_last = "3758" /\ "AS3758" \in valid_upstreams
                      THEN [stats EXCEPT !["AS3758"] = @ + 1]
                      ELSE IF second_last = "17645"
                              /\ "AS17645" \in valid_upstreams
                      THEN [stats EXCEPT !["AS17645"] = @ + 1]
                      ELSE stats
             ELSE stats
    ELSE stats

\* One pass of the body of "for peer in peers".
analyze_peer(stats, peer, prefix) ==
    IF ~HasOrigin(peer) THEN Raised
    ELSE IF ~HasPath(peer) THEN Raised
    ELSE IF ~IsStr(peer.as_path) THEN Raised
    ELSE Returned(count_upstream(count_origin(stats, peer.asn_origin),
                                 Split(peer.as_path), peer.asn_origin,
                                 VALID_UPSTREAMS(prefix)))

RECURSIVE analyze_peers(_, _, _)
analyze_peers(stats, peers, prefix) ==
    IF peers = << >> THEN Returned(stats)
    ELSE LET r == analyze_peer(stats, Head(peers), prefix)
         IN  IF r.raised THEN Raised
             ELSE analyze_peers(r.stats, Tail(peers), prefix)

enter_rrc_uncounted(stats, n) == stats

\* Line 102: stats['total_paths'] += len(peers).
enter_rrc(stats, n) == [stats EXCEPT !["total_paths"] = @ + n]

RECURSIVE analyze_rrcs(_, _, _)
analyze_rrcs(stats, rrcs, prefix) ==
    IF rrcs = << >> THEN Returned(stats)
    ELSE LET peers == Head(rrcs).peers
             r == analyze_peers(enter_rrc(stats, Len(peers)), peers, prefix)
         IN  IF r.raised THEN Raised
             ELSE analyze_rrcs(r.stats, Tail(rrcs), prefix)

\* data is data['data']['rrcs'], the list of collector entries.
analyze_bgp_data(data, prefix) == analyze_rrcs(ZeroStats, data, prefix)

---------------------------------------------------------------------------
(* Inputs of the models.                                                   *)

\* The snapshot of the end-to-end scenario: one collector, two peers.
SnapScenario ==
    << [peers |-> << [asn_origin |-> "10236",
                      as_path |-> Str(<< "3758", "10236", "10236" >>)],
                     [asn_origin |-> "77777",
                      as_path |-> Str(<< "9999", "77777" >>)] >>] >>

\* The same snapshot with a peer record that lacks asn_origin.
SnapMalformed ==
    << [peers |-> << [asn_origin |-> "10236",
                      as_path |-> Str(<< "3758", "10236", "10236" >>)],
                     [as_path |-> Str(<< "9999", "77777" >>)] >>] >>

Origins == {"10236", "19905", "3758"}

PathTokens == {"10236", "3758", "17645"}

Paths == UNION { [1..n -> PathTokens] : n \in 0..MaxPathLen }

WellFormedPeers ==
    { [asn_origin |-> o, as_path |-> Str(p)] : o \in Origins, p \in Paths }

MalformedPeers ==
    { [as_path |-> Str(<< "3758", "10236" >>)],
      [asn_origin |-> "10236"],
      [asn_origin |-> "10236", as_path |-> JsonNull] }

Peers == WellFormedPeers \cup MalformedPeers

IsMalformed(peer) ==
    ~HasOrigin(peer) \/ ~HasPath(peer) \/ ~IsStr(peer.as_path)

\* One prefix for each distinct value of VALID_UPSTREAMS.
ClassifyPrefixes == {"171.18.48.0/24", "171.18.49.0/24", "171.18.48.0/23"}

---------------------------------------------------------------------------
(* SpecStore: one DataStorage object, add_stats called on it.              *)

StoreStats == {None, analyze_bgp_data(SnapScenario, PREFIXES[1]).stats}

AddStats(stats, ts) ==
    /\ Len(calls) < MaxAdds
    /\ store' = add_stats(store, stats, ts)
    /\ store_prev' = store
    /\ calls' = Append(calls, [timestamp |-> ts, stats |-> stats])
    /\ UNCHANGED << main_vars, an_vars >>

---------------------------------------------------------------------------
(* SpecClassify: one call of analyze_bgp_data, peer by peer.               *)

\* The call: lines 89-98.
AnalyzeCall(prefix) ==
    /\ an_pc = "idle"
    /\ an_pc' = "loop"
    /\ an_prefix' = prefix
    /\ an_stats' = ZeroStats
    /\ UNCHANGED << an_todo, an_peer, an_prev, main_vars, store_vars >>

\* "for rrc in data['data']['rrcs']" takes an rrc of n peers: lines 100-102.
AnalyzeRrc(n) ==
    /\ an_pc = "loop"
    /\ an_todo = 0
    /\ an_stats["total_paths"] + n <= MaxPeers
    /\ an_stats' = enter_rrc(an_stats, n)
    /\ an_todo' = n
    /\ UNCHANGED << an_pc, an_prefix, an_peer, an_prev, main_vars, store_vars >>

\* "for peer in peers" takes a peer and runs the body: lines 104-127.
AnalyzePeer(peer) ==
    /\ an_pc = "loop"
    /\ an_todo > 0
    /\ LET r == analyze_peer(an_stats, peer, an_prefix)
       IN  /\ an_pc' = IF r.raised THEN "raised" ELSE "loop"
           /\ an_stats' = IF r.raised THEN an_stats ELSE r.stats
    /\ an_todo' = an_todo - 1
    /\ an_peer' = peer
    /\ an_prev' = an_stats
    /\ UNCHANGED << an_prefix, main_vars, store_vars >>

\* Both loops are exhausted: line 129.
AnalyzeReturn ==
    /\ an_pc = "loop"
    /\ an_todo = 0
    /\ an_pc' = "returned"
    /\ UNCHANGED << an_prefix, an_stats, an_todo, an_peer, an_prev, main_vars,
                    store_vars >>

---------------------------------------------------------------------------
(* Spec: the Streamlit script, run after run.                              *)

\* strftime('%H:%M') of a clock reading: the minute of the day.
Label(t) == (t \div 60) % MinutesPerDay

\* timedelta.seconds of (a - b): the seconds within the day.
Seconds(a, b) == (a - b) % SecondsPerDay

\* What urlopen + json.loads give for one prefix: an exception, or the
\* collector list of the answer.
FetchError == [ok |-> FALSE, data |-> << >>]

FetchOutcomes ==
    {FetchError} \cup { [ok |-> TRUE, data |-> d] : d \in {SnapScenario, SnapMalformed} }

\* Seconds one urlopen call may take, and seconds a stopped page may wait
\* before the viewer reruns it.
FetchDurations == {0, 60}

RerunDelays == {120}

EmptyDict == [p \in {} |-> None]

\* The commit loop at the top of update_plots: lines 140-141 of app.py,
\* lines 114-117 of v1.2.
commit(stores, stats_map, ts) ==
    [p \in DOMAIN stores |->
        IF variant = "app"
        THEN add_stats(stores[p], stats_map[p], ts)
        ELSE IF Truthy(stats_map) /\ Truthy(stats_map[p])
             THEN add_stats(stores[p], stats_map[p], ts)
             ELSE stores[p]]

\* The plotting loops of update_plots: one bar per (t_idx, prefix) whose
\* get_stats(t_idx) is truthy, under the label timestamps[t_idx] of the
\* first prefix's history.
draw(stores) ==
    LET timestamps == stores[PREFIXES[1]].timestamps
    IN  { [prefix |-> p, t_idx |-> t, label |-> timestamps[t + 1]] :
            <<t, p>> \in { tp \in (0..(Len(timestamps) - 1)) \X PrefixSet :
                             Truthy(get_stats(stores[tp[2]], tp[1])) } }

Init ==
    /\ variant \in {"app", "v12"}
    /\ now = 0
    /\ pc = "idle"
    /\ initialized = FALSE
    /\ data_stores = [p \in PrefixSet |-> DataStorage(DefaultMaxPoints)]
    /\ update_time = 0
    /\ last_stats = None
    /\ current_time = 0
    /\ time_since_last_update = 0
    /\ all_stats = EmptyDict
    /\ timestamp = 0
    /\ fidx = 1
    /\ attempted = << >>
    /\ failed = {}
    /\ took_fetch = FALSE
    /\ run_pre = data_stores
    /\ bars = {}
    /\ runs = 0
    /\ store = DataStorage(DefaultMaxPoints)
    /\ store_prev = store
    /\ calls = << >>
    /\ an_pc = "idle"
    /\ an_prefix = ALL_PREFIXES[1]
    /\ an_stats = ZeroStats
    /\ an_todo = 0
    /\ an_peer = None
    /\ an_prev = ZeroStats

\* main() from its first line to the branch "if time_since_last_update >=
\* 120 or last_stats is None", and the first lines of fetch_and_analyze_bgp
\* when the branch is taken.
MainStart ==
    /\ pc = "idle"
    /\ runs < MaxRuns
    /\ runs' = runs + 1
    /\ LET ut == IF initialized THEN update_time ELSE now - PollInterval
           ls == IF initialized THEN last_stats ELSE None
           ds == IF initialized THEN data_stores
                 ELSE [p \in PrefixSet |-> DataStorage(DefaultMaxPoints)]
           since == Seconds(now, ut)
           fetch == since >= PollInterval \/ ls = None
       IN  /\ initialized' = TRUE
           /\ update_time' = ut
           /\ last_stats' = ls
           /\ data_stores' = ds
           /\ run_pre' = ds
           /\ current_time' = now
           /\ time_since_last_update' = since
           /\ took_fetch' = fetch
           /\ pc' = IF fetch THEN "fetch" ELSE "display"
           /\ timestamp' = IF fetch THEN Label(now) ELSE timestamp
    /\ all_stats' = EmptyDict
    /\ fidx' = 1
    /\ attempted' = << >>
    /\ failed' = {}
    /\ UNCHANGED << store_vars, an_vars >>
    /\ UNCHANGED << variant, now, bars >>

\* The fetch loop with a break on the first failure.
FetchPrefixAborting ==
    /\ pc = "fetch"
    /\ fidx <= Len(PREFIXES)
    /\ \E outcome \in FetchOutcomes, d \in FetchDurations :
         LET prefix == PREFIXES[fidx]
             r == IF outcome.ok THEN analyze_bgp_data(outcome.data, prefix)
                  ELSE Raised
         IN  /\ all_stats' = (prefix :> (IF r.raised THEN None ELSE r.stats))
                             @@ all_stats
             /\ failed' = IF r.raised THEN failed \cup {prefix} ELSE failed
             /\ attempted' = Append(attempted, prefix)
             /\ fidx' = IF r.raised THEN Len(PREFIXES) + 1 ELSE fidx + 1
             /\ now' = now + d
    /\ UNCHANGED << store_vars, an_vars >>
    /\ UNCHANGED << variant, pc, initialized, data_stores, update_time,
                    last_stats, current_time, time_since_last_update,
                    timestamp, took_fetch, run_pre, bars, runs >>

\* One pass of "for prefix in PREFIXES" in fetch_and_analyze_bgp: the
\* try block and its except clause.
FetchPrefix ==
    /\ pc = "fetch"
    /\ fidx <= Len(PREFIXES)
    /\ \E outcome \in FetchOutcomes, d \in FetchDurations :
         LET prefix == PREFIXES[fidx]
             r == IF outcome.ok THEN analyze_bgp_data(outcome.data, prefix)
                  ELSE Raised
         IN  /\ all_stats' = (prefix :> (IF r.raised THEN None ELSE r.stats))
                             @@ all_stats
             /\ failed' = IF r.raised THEN failed \cup {prefix} ELSE failed
             /\ attempted' = Append(attempted, prefix)
             /\ fidx' = fidx + 1
             /\ now' = now + d
    /\ UNCHANGED << store_vars, an_vars >>
    /\ UNCHANGED << variant, pc, initialized, data_stores, update_time,
                    last_stats, current_time, time_since_last_update,
                    timestamp, took_fetch, run_pre, bars, runs >>

\* The end of fetch_and_analyze_bgp (update_plots(all_stats, timestamp) and
\* the return) and main's use of the returned map.
FetchReturn ==
    /\ pc = "fetch"
    /\ fidx > Len(PREFIXES)
    /\ data_stores' = commit(data_stores, all_stats, timestamp)
    /\ bars' = draw(data_stores')
    /\ IF variant = "app" \/ \E p \in PrefixSet : Truthy(all_stats[p])
       THEN /\ last_stats' = all_stats
            /\ update_time' = current_time
       ELSE UNCHANGED << last_stats, update_time >>
    /\ pc' = "display"
    /\ UNCHANGED << store_vars, an_vars >>
    /\ UNCHANGED << variant, now, initialized, current_time,
                    time_since_last_update, all_stats, timestamp, fidx,
                    attempted, failed, took_fetch, run_pre, runs >>

\* "Display current data": lines 305-310 of app.py, 246-249 of v1.2.
Display ==
    /\ pc = "display"
    /\ IF Truthy(last_stats)
       THEN /\ data_stores' =
                  commit(data_stores, last_stats,
                         IF variant = "app" THEN Label(now)
                         ELSE Label(current_time))
            /\ bars' = draw(data_stores')
       ELSE UNCHANGED << data_stores, bars >>
    /\ pc' = "end"
    /\ UNCHANGED << store_vars, an_vars >>
    /\ UNCHANGED << variant, now, initialized, update_time, last_stats,
                    current_time, time_since_last_update, all_stats,
                    timestamp, fidx, attempted, failed, took_fetch, run_pre,
                    runs >>

\* v1.2's time_to_next: line 244.
time_to_next ==
    IF PollInterval - time_since_last_update > 0
    THEN PollInterval - time_since_last_update
    ELSE 0

\* The last lines of main: app.py sleeps 2 s and reruns; v1.2 sleeps 1 s
\* and reruns only if time_to_next <= 1, else the script ends.
MainEnd ==
    /\ pc = "end"
    /\ IF variant = "app"
       THEN /\ now' = now + 2
            /\ pc' = "idle"
       ELSE IF time_to_next <= 1
            THEN /\ now' = now + 1
                 /\ pc' = "idle"
            ELSE /\ now' = now
                 /\ pc' = "stopped"
    /\ UNCHANGED << store_vars, an_vars >>
    /\ UNCHANGED << variant, initialized, data_stores, update_time,
                    last_stats, current_time, time_since_last_update,
                    all_stats, timestamp, fidx, attempted, failed,
                    took_fetch, run_pre, bars, runs >>

\* urllib.request.urlopen(url) is called with no timeout argument and no
\* default socket timeout is set anywhere: when the server never answers,
\* the call never returns and never raises, so the loop stays inside the
\* try block of this prefix.
FetchHang ==
    /\ pc = "fetch"
    /\ fidx <= Len(PREFIXES)
    /\ attempted' = Append(attempted, PREFIXES[fidx])
    /\ pc' = "blocked"
    /\ UNCHANGED << store_vars, an_vars >>
    /\ UNCHANGED << variant, now, initialized, data_stores, update_time,
                    last_stats, current_time, time_since_last_update,
                    all_stats, timestamp, fidx, failed, took_fetch, run_pre,
                    bars, runs >>

\* The viewer reruns a page whose script has ended (Streamlit's Rerun).
UserRerun ==
    /\ pc = "stopped"
    /\ \E d \in RerunDelays : now' = now + d
    /\ pc' = "idle"
    /\ UNCHANGED << store_vars, an_vars >>
    /\ UNCHANGED << variant, initialized, data_stores, update_time,
                    last_stats, current_time, time_since_last_update,
                    all_stats, timestamp, fidx, attempted, failed,
                    took_fetch, run_pre, bars, runs >>

---------------------------------------------------------------------------
(* The three specifications.                                               *)

\* The steps the script takes by itself: every action but the viewer's.
ProgramStep ==
    \/ MainStart
    \/ FetchPrefix
    \/ FetchHang
    \/ FetchReturn
    \/ Display
    \/ MainEnd

Next ==
    \/ MainStart
    \/ FetchPrefix
    \/ FetchHang
    \/ FetchReturn
    \/ Display
    \/ MainEnd
    \/ UserRerun

Spec == Init /\ [][Next]_vars

InitStore ==
    /\ store \in { DataStorage(m) : m \in 1..MaxCapacity }
    /\ store_prev = store
    /\ calls = << >>
    /\ variant = "app"
    /\ now = 0
    /\ pc = "idle"
    /\ initialized = FALSE
    /\ data_stores = [p \in PrefixSet |-> DataStorage(DefaultMaxPoints)]
    /\ update_time = 0
    /\ last_stats = None
    /\ current_time = 0
    /\ time_since_last_update = 0
    /\ all_stats = EmptyDict
    /\ timestamp = 0
    /\ fidx = 1
    /\ attempted = << >>
    /\ failed = {}
    /\ took_fetch = FALSE
    /\ run_pre = data_stores
    /\ bars = {}
    /\ runs = 0
    /\ an_pc = "idle"
    /\ an_prefix = ALL_PREFIXES[1]
    /\ an_stats = ZeroStats
    /\ an_todo = 0
    /\ an_peer = None
    /\ an_prev = ZeroStats

NextStore == \E stats \in StoreStats, ts \in 1..MaxStamp : AddStats(stats, ts)

SpecStore == InitStore /\ [][NextStore]_vars

InitClassify ==
    /\ an_pc = "idle"
    /\ an_prefix = ALL_PREFIXES[1]
    /\ an_stats = ZeroStats
    /\ an_todo = 0
    /\ an_peer = None
    /\ an_prev = ZeroStats
    /\ store = DataStorage(DefaultMaxPoints)
    /\ store_prev = store
    /\ calls = << >>
    /\ variant = "app"
    /\ now = 0
    /\ pc = "idle"
    /\ initialized = FALSE
    /\ data_stores = [p \in PrefixSet |-> DataStorage(DefaultMaxPoints)]
    /\ update_time = 0
    /\ last_stats = None
    /\ current_time = 0
    /\ time_since_last_update = 0
    /\ all_stats = EmptyDict
    /\ timestamp = 0
    /\ fidx = 1
    /\ attempted = << >>
    /\ failed = {}
    /\ took_fetch = FALSE
    /\ run_pre = data_stores
    /\ bars = {}
    /\ runs = 0

NextClassify ==
    \/ \E prefix \in ClassifyPrefixes : AnalyzeCall(prefix)
    \/ \E n \in 0..MaxPeers : AnalyzeRrc(n)
    \/ \E peer \in Peers : AnalyzePeer(peer)
    \/ AnalyzeReturn

SpecClassify == InitClassify /\ [][NextClassify]_vars

---------------------------------------------------------------------------
(* Claims about DataStorage (SpecStore).                                   *)

Last(seq) == seq[Len(seq)]

Min(a, b) == IF a <= b THEN a ELSE b

\* C1: add_stats with a timestamp equal to the last stored timestamp is a
\* no-op (timestamps and stats_history unchanged), and therefore no two
\* adjacent stored points carry the same timestamp.
C1_DuplicateTimestampIsNoOp ==
    /\ (/\ calls # << >>
        /\ store_prev.timestamps # << >>
        /\ Last(calls).timestamp = Last(store_prev.timestamps))
       => store = store_prev
    /\ \A i \in 1..(Len(store.timestamps) - 1) :
         store.timestamps[i] # store.timestamps[i + 1]

DistinctTimestamps ==
    \A i, j \in 1..Len(calls) :
        i # j => calls[i].timestamp # calls[j].timestamp

\* C3: after n add_stats calls with pairwise distinct timestamps on an
\* empty history of capacity max_points, the history holds exactly the
\* last min(n, max_points) points passed, oldest first; its length never
\* exceeds max_points.
C3_KeepsLastMaxPoints ==
    DistinctTimestamps =>
        LET n == Len(calls)
            k == Min(n, store.max_points)
        IN  /\ Len(store.timestamps) = k
            /\ Len(store.stats_history) = k
            /\ k <= store.max_points
            /\ \A i \in 1..k :
                 /\ store.timestamps[i] = calls[n - k + i].timestamp
                 /\ store.stats_history[i] = calls[n - k + i].stats

\* A history of capacity 2 or more that has evicted at least one point.
C3_Witness ==
    /\ DistinctTimestamps
    /\ store.max_points >= 2
    /\ Len(calls) > store.max_points
    /\ Len(store.timestamps) = store.max_points

---------------------------------------------------------------------------
(* Claims about analyze_bgp_data (SpecClassify).                           *)

OriginKey(asn_origin) ==
    IF asn_origin = "10236" THEN "AS10236"
    ELSE IF asn_origin = "19905" THEN "AS19905"
    ELSE "OTHER"

OriginKeys == {"AS10236", "AS19905", "OTHER"}

UpstreamKeys == {"AS3758", "AS17645"}

Visited == an_peer # None /\ ~IsMalformed(an_peer)

\* C6: every returned stats record has AS10236 + AS19905 + OTHER equal to
\* total_paths and every upstream counter at most total_paths; each visited
\* peer increments exactly one origin counter, the one matching asn_origin,
\* else OTHER.
C6_OriginSumIsTotal ==
    /\ an_pc = "returned" =>
         /\ an_stats["AS10236"] + an_stats["AS19905"] + an_stats["OTHER"]
              = an_stats["total_paths"]
         /\ \A k \in UpstreamKeys : an_stats[k] <= an_stats["total_paths"]
    /\ Visited =>
         \A k \in OriginKeys :
            an_stats[k] = an_prev[k]
                          + (IF k = OriginKey(an_peer.asn_origin) THEN 1 ELSE 0)

\* A returned record that counted at least two peers of different origins.
C6_Witness ==
    /\ an_pc = "returned"
    /\ an_stats["total_paths"] >= 2
    /\ an_stats["AS10236"] >= 1
    /\ an_stats["OTHER"] >= 1

\* The reference of C7: the positions before the last entry whose entry
\* differs from the origin; the candidate is the entry at the last of them.
CandidatePositions(as_path, asn_origin) ==
    { j \in 1..(Len(as_path) - 1) : as_path[j] # asn_origin }

HasCandidate(as_path, asn_origin) ==
    CandidatePositions(as_path, asn_origin) # {}

Candidate(as_path, asn_origin) ==
    LET js == CandidatePositions(as_path, asn_origin)
    IN  as_path[CHOOSE j \in js : \A m \in js : m <= j]

UpstreamKey(asn) ==
    IF asn = "3758" THEN "AS3758"
    ELSE IF asn = "17645" THEN "AS17645"
    ELSE "none"

\* C7: for the peer visited last, the upstream counter of the candidate
\* goes up by exactly 1 if the candidate exists and is a valid upstream of
\* the prefix, and no other upstream counter changes; with no candidate or
\* a candidate that is not valid, no upstream counter changes while the
\* origin counter still goes up.
C7_UpstreamMatchesReference ==
    Visited =>
        LET as_path == an_peer.as_path.tokens
            origin == an_peer.asn_origin
            counted ==
                IF /\ HasCandidate(as_path, origin)
                   /\ UpstreamKey(Candidate(as_path, origin))
                        \in VALID_UPSTREAMS(an_prefix)
                THEN UpstreamKey(Candidate(as_path, origin))
                ELSE "none"
        IN  /\ \A k \in UpstreamKeys :
                 an_stats[k] = an_prev[k] + (IF k = counted THEN 1 ELSE 0)
            /\ an_stats[OriginKey(origin)] = an_prev[OriginKey(origin)] + 1

\* The path [X, origin, origin] with X valid has counted X once.
C7_Witness ==
    /\ Visited
    /\ an_peer.asn_origin = "10236"
    /\ an_peer.as_path.tokens = << "3758", "10236", "10236" >>
    /\ "AS3758" \in VALID_UPSTREAMS(an_prefix)
    /\ an_stats["AS3758"] = an_prev["AS3758"] + 1

\* C8: a malformed peer record (asn_origin missing, as_path missing or
\* unparsable) does not make analyze_bgp_data raise: the observation is
\* skipped and counted in no counter, total_paths included.
C8_MalformedPeerIsSkipped ==
    (an_peer # None /\ IsMalformed(an_peer)) =>
        /\ an_pc # "raised"
        /\ an_stats = [an_prev EXCEPT !["total_paths"] = @ - 1]

---------------------------------------------------------------------------
(* Claims about the script (Spec).                                         *)

RunDone == pc \in {"end", "stopped"}

SameHistory(a, b) ==
    /\ a.timestamps = b.timestamps
    /\ a.stats_history = b.stats_history

\* C2: after a run that took the fetch branch, the history of every prefix
\* whose fetch or analysis raised in that run is what it was before the run.
C2_FailedPrefixHistoryUnchanged ==
    (RunDone /\ took_fetch) =>
        \A p \in failed : SameHistory(data_stores[p], run_pre[p])

\* C4: after a run that took the fetch branch, the history of every prefix
\* that succeeded is one point longer than before (capped at max_points),
\* or unchanged if the tick's timestamp equals its last stored timestamp.
C4_TickCommitsOnePoint ==
    (RunDone /\ took_fetch) =>
        \A p \in PrefixSet \ failed :
            LET pre == run_pre[p]
                post == data_stores[p]
            IN  \/ Len(post.timestamps)
                     = Min(Len(pre.timestamps) + 1, pre.max_points)
                \/ /\ pre.timestamps # << >>
                   /\ timestamp = Last(pre.timestamps)
                   /\ SameHistory(post, pre)

\* C5: when the loop of fetch_and_analyze_bgp has ended, and from then on,
\* the fetch was attempted for every configured prefix in order, and the
\* map has an entry for every configured prefix: None for each prefix that
\* raised, a stats record for each other.
C5_EveryPrefixAttempted ==
    (\/ pc = "fetch" /\ fidx > Len(PREFIXES)
     \/ pc \notin {"fetch", "blocked"} /\ took_fetch) =>
        /\ attempted = PREFIXES
        /\ DOMAIN all_stats = PrefixSet
        /\ \A p \in PrefixSet :
             IF p \in failed
             THEN all_stats[p] = None
             ELSE /\ all_stats[p] # None
                  /\ DOMAIN all_stats[p] = StatKeys

\* A tick whose first prefix failed and whose last prefix succeeded.
C5_Witness ==
    /\ pc = "display"
    /\ took_fetch
    /\ PREFIXES[1] \in failed
    /\ PREFIXES[Len(PREFIXES)] \notin failed
    /\ all_stats[PREFIXES[Len(PREFIXES)]]["total_paths"] = 2

\* C9: a run that does not take the fetch branch leaves every prefix's
\* history unchanged.
C9_DisplayRunLeavesHistories ==
    (RunDone /\ ~took_fetch) =>
        \A p \in PrefixSet : SameHistory(data_stores[p], run_pre[p])

\* C10: every bar drawn for prefix P at position t_idx under the label
\* timestamps[t_idx] of the first prefix was stored in P's history under
\* that same timestamp.
C10_BarsAlignedByTimestamp ==
    \A b \in bars :
        data_stores[b.prefix].timestamps[b.t_idx + 1] = b.label

\* C11: ticks recur without external input: whenever a run of main has
\* ended after a completed tick, the script itself has a next step (it has
\* scheduled its own rerun), so the next tick needs no action of the viewer.
C11_RerunLoopNeverStops ==
    (RunDone /\ Truthy(last_stats)) => ENABLED ProgramStep

\* C12: a started tick always completes: while fetch_and_analyze_bgp is
\* inside its loop, an unanswered fetch included, the script has a next step
\* (the fetch ends by a timeout and the loop goes on to the next prefix).
C12_StartedTickCompletes ==
    (pc \in {"fetch", "blocked"}) => ENABLED ProgramStep

===========================================================================
